---------------------------- MODULE Spec2Model ----------------------------
(***************************************************************************)
(* Model of the basic-monitoring scraper of rds_exporter                   *)
(* (basic/scraper.go, basic/instance_database.go).                         *)
(*                                                                         *)
(* One Scraper is built by NewScraper for one configured instance.         *)
(* Scrape() adds len(metrics) to a WaitGroup, starts one goroutine per     *)
(* catalog metric and returns through the deferred wg.Wait().  Every       *)
(* goroutine runs scrapeMetricSomewhere and then                           *)
(* scrapeMetricFromGetMetricsStatistics, each of which sends at most one   *)
(* sample on the channel ch.                                               *)
(*                                                                         *)
(* float64 values are modelled as w + h/2 with w an integer and h in       *)
(* {0,1}, so that the conversion int64(v) of the code has something to cut *)
(* off.                                                                    *)
(***************************************************************************)
EXTENDS Integers, Sequences, FiniteSets, Bags, TLC

VARIABLES
    instance,         \* config.Instance: Region, Instance, Labels, DisableEnhancedMetrics
    sessionInstance,  \* sessions.Instance: AllocatedStorage, InstanceClass
    sessionOK,        \* whether GetSession yields a configuration for the instance
    metrics,          \* collector.metrics: the catalog, a sequence of cwName
    scraper,          \* "unbuilt", "nil" (NewScraper returned nil) or "built"
    constLabels,      \* Scraper.constLabels
    mainpc,           \* position of Scrape(): "idle", "running", "returned"
    spawned,          \* how many goroutines the loop of Scrape() has started
    wg,               \* the WaitGroup's counter
    pc,               \* pc[i]: position of the goroutine started for the i-th loop turn
    pending,          \* pending[i]: the sample goroutine i is blocked sending (<<>> or <<s>>)
    outcome,          \* outcome[i]: what GetMetricStatistics answered goroutine i
    picked,           \* picked[i]: the local dp/now of goroutine i after the query
    sink,             \* the samples received from ch in this cycle, in order
    log,              \* bag of the entries logged in this cycle
    queries,          \* queries[i]: GetMetricStatistics calls of goroutine i in this cycle
    cycle,            \* number of Scrape() calls so far
    selDps,           \* the slice getLatestDatapoint is applied to under SelSpec
    selOut,           \* << >> before the call, then <<r>>: r is 0 (nil) or the index pointed at
    memoryLookup,     \* the package's map from instance class to max memory, filled by init()
    lookupClass,      \* lookupClass[s]: InstanceClass of scraper s under CatalogSpec
    lookupResults     \* lookupResults[s]: what GetInstanceMaxMemory returned to scraper s, in order

vars == <<instance, sessionInstance, sessionOK, metrics, scraper, constLabels,
          mainpc, spawned, wg, pc, pending, outcome, picked, sink, log, queries,
          cycle, selDps, selOut, memoryLookup, lookupClass, lookupResults>>

catalogVars == <<lookupClass, lookupResults>>

scrapeVars == <<instance, sessionInstance, sessionOK, metrics, scraper, constLabels,
                mainpc, spawned, wg, pc, pending, outcome, picked, sink, log,
                queries, cycle>>

(***************************************************************************)
(* Bounds of the model.                                                    *)
(***************************************************************************)
MaxMetrics == 2      \* longest metric catalog
MaxDatapoints == 2   \* most datapoints in one response of the Scrape model
MaxSelLen == 3       \* longest input of the selector check
MaxTs == 2           \* timestamps are 1..MaxTs
MaxCycles == 2       \* Scrape() calls on one scraper
MaxScrapers == 2     \* scrapers sharing the memory catalog under CatalogSpec
MaxLookups == 3      \* lookups of one scraper under CatalogSpec
Epoch == 100         \* earliest value of time.Now().Unix()

(***************************************************************************)
(* Program constants.                                                      *)
(***************************************************************************)
GBtoByte == 1000000000

(***************************************************************************)
(* float64, as w + h/2.                                                    *)
(***************************************************************************)
F(w, h) == [w |-> w, h |-> h]

Float64(n) == F(n, 0)

\* int64(v): the fraction is cut off towards zero.
Int64(v) == IF v.w < 0 /\ v.h = 1 THEN v.w + 1 ELSE v.w

\* a - b on float64 (used by the statements about the code, not by the code).
FSub(a, b) == IF a.h >= b.h THEN F(a.w - b.w, a.h - b.h)
                            ELSE F(a.w - b.w - 1, 1)

(***************************************************************************)
(* Inputs.                                                                 *)
(***************************************************************************)
Keys == {"TotalStorageSpace", "TotalMemory", "EngineUptime",
         "CPUUtilization", "FreeStorageSpace", "FreeableMemory"}

Averages == {F(-2, 1), F(0, 0), F(1, 1)}     \* -1.5, 0, 1.5

Datapoints == [Timestamp : 1..MaxTs, Average : Averages]

SeqsUpTo(S, n) == UNION {[1..k -> S] : k \in 0..n}

Nows == {Epoch, Epoch + 1}

\* What GetMetricStatistics can answer: an error, or a response with datapoints.
Responses == {[err |-> TRUE, Datapoints |-> <<>>]}
             \cup {[err |-> FALSE, Datapoints |-> d] : d \in SeqsUpTo(Datapoints, MaxDatapoints)}

EmptyMap == [k \in {} |-> ""]

\* instance.Labels of the configured instances.
LabelOverrides ==
    { EmptyMap,
      [k \in {"region"} |-> ""],
      [k \in {"instance", "env"} |-> IF k = "instance" THEN "" ELSE "prod"],
      [k \in {"region", "env", "cpu"} |->
          IF k = "region" THEN "eu" ELSE IF k = "env" THEN "" ELSE "0"] }

Instances == [Region : {"us-east-1"}, Instance : {"db1"},
              Labels : LabelOverrides, DisableEnhancedMetrics : BOOLEAN]

Sessions == { [AllocatedStorage |-> 2, InstanceClass |-> "db.t3.micro"],
              [AllocatedStorage |-> 1, InstanceClass |-> "db.unknown"] }

(***************************************************************************)
(* instance_database.go                                                    *)
(***************************************************************************)
\* What init() unmarshals from the embedded data/rds-max-memory.json into memoryLookup.
MemoryData == [c \in {"db.t3.micro", "db.t3.small"} |->
                  IF c = "db.t3.micro" THEN Float64(1) ELSE Float64(2)]

\* Variant: a class that is not in the map yields the zero value and no error.
GetInstanceMaxMemoryZeroDefault(class) ==
    IF class \in DOMAIN memoryLookup
    THEN [value |-> memoryLookup[class], err |-> "nil"]
    ELSE [value |-> Float64(0), err |-> "nil"]

GetInstanceMaxMemory(class) ==
    IF class \in DOMAIN memoryLookup
    THEN [value |-> memoryLookup[class], err |-> "nil"]
    ELSE [value |-> Float64(0), err |-> "UnknownInstanceType"]

\* Variant: a miss is remembered in the map with the zero value.
MemoryAfterLookupCachingMiss(class) ==
    IF class \in DOMAIN memoryLookup THEN memoryLookup
    ELSE [c \in DOMAIN memoryLookup \cup {class} |->
             IF c = class THEN Float64(0) ELSE memoryLookup[c]]

\* The map after GetInstanceMaxMemory(class): the function only reads it.
MemoryAfterLookup(class) == memoryLookup

(***************************************************************************)
(* NewScraper: the base label set.                                         *)
(***************************************************************************)
MapDelete(m, n) == [k \in DOMAIN m \ {n} |-> m[k]]

MapSet(m, n, v) == [k \in DOMAIN m \cup {n} |-> IF k = n THEN v ELSE m[k]]

\* Variant: an empty override is stored like any other value.
ApplyOverrideKeepsEmpty(labels, n, v) == MapSet(labels, n, v)

\* One turn of the loop over instance.Labels.
ApplyOverride(labels, n, v) ==
    IF v = "" THEN MapDelete(labels, n) ELSE MapSet(labels, n, v)

RECURSIVE ApplyOverrides(_, _, _)
ApplyOverrides(labels, overrides, todo) ==
    IF todo = {} THEN labels
    ELSE LET n == CHOOSE k \in todo : TRUE
         IN ApplyOverrides(ApplyOverride(labels, n, overrides[n]), overrides, todo \ {n})

BaseLabels(inst) ==
    [k \in {"region", "instance"} |-> IF k = "region" THEN inst.Region ELSE inst.Instance]

NewConstLabels(inst) ==
    ApplyOverrides(BaseLabels(inst), inst.Labels, DOMAIN inst.Labels)

(***************************************************************************)
(* getLatestDatapoint.  A pointer into the slice is the index it points    *)
(* at; 0 is nil.                                                           *)
(***************************************************************************)
\* Variant: "not after" in place of "before".
NotAfter(t, u) == t <= u

Before(t, u) == t < u

RECURSIVE LatestFrom(_, _, _)
LatestFrom(datapoints, dp, latest) ==
    IF dp > Len(datapoints) THEN latest
    ELSE IF latest = 0 \/ Before(datapoints[latest].Timestamp, datapoints[dp].Timestamp)
         THEN LatestFrom(datapoints, dp + 1, dp)
         ELSE LatestFrom(datapoints, dp + 1, latest)

getLatestDatapoint(datapoints) == LatestFrom(datapoints, 1, 0)


(***************************************************************************)
(* Samples.  metric is the index of the catalog entry whose prometheusName *)
(* and prometheusHelp make the Desc; via records which strategy built the  *)
(* sample (the code does not carry it).                                    *)
(***************************************************************************)
MustNewConstMetric(m, labels, value, via) ==
    [metric |-> m, labels |-> labels, value |-> value, via |-> via]

\* What a strategy hands back to the goroutine: its error and the samples it sends on ch.
Result(err, samples) == [err |-> err, samples |-> samples]

(***************************************************************************)
(* scrapeMetricSomewhere: the computed-value strategy.                     *)
(***************************************************************************)
\* Variant: the default case does not return, a zero sample is sent for every other key.
scrapeSomewhereDefaultSends(m) ==
    LET cwName == metrics[m]
        mem == GetInstanceMaxMemory(sessionInstance.InstanceClass)
    IN CASE cwName = "TotalStorageSpace" ->
              Result("nil", << MustNewConstMetric(m, constLabels,
                                  Float64(sessionInstance.AllocatedStorage * GBtoByte),
                                  "computed") >>)
         [] cwName = "TotalMemory" ->
              IF mem.err # "nil"
              THEN Result(mem.err, << >>)
              ELSE Result("nil", << MustNewConstMetric(m, constLabels, mem.value, "computed") >>)
         [] OTHER -> Result("nil", << MustNewConstMetric(m, constLabels, Float64(0), "computed") >>)

\* Variant: the looked-up memory is multiplied by GBtoByte like the storage.
scrapeSomewhereScalesMemory(m) ==
    LET cwName == metrics[m]
        mem == GetInstanceMaxMemory(sessionInstance.InstanceClass)
    IN CASE cwName = "TotalStorageSpace" ->
              Result("nil", << MustNewConstMetric(m, constLabels,
                                  Float64(sessionInstance.AllocatedStorage * GBtoByte),
                                  "computed") >>)
         [] cwName = "TotalMemory" ->
              IF mem.err # "nil"
              THEN Result(mem.err, << >>)
              ELSE Result("nil", << MustNewConstMetric(m, constLabels,
                                       Float64(Int64(mem.value) * GBtoByte), "computed") >>)
         [] OTHER -> Result("nil", << >>)

scrapeMetricSomewhere(m) ==
    LET cwName == metrics[m]
        mem == GetInstanceMaxMemory(sessionInstance.InstanceClass)
    IN CASE cwName = "TotalStorageSpace" ->
              Result("nil", << MustNewConstMetric(m, constLabels,
                                  Float64(sessionInstance.AllocatedStorage * GBtoByte),
                                  "computed") >>)
         [] cwName = "TotalMemory" ->
              IF mem.err # "nil"
              THEN Result(mem.err, << >>)
              ELSE Result("nil", << MustNewConstMetric(m, constLabels, mem.value, "computed") >>)
         [] OTHER -> Result("nil", << >>)

(***************************************************************************)
(* scrapeMetricFromGetMetricsStatistics: the time-series strategy.         *)
(***************************************************************************)
\* Variant: the value is never transformed.
TransformNone(cwName, v, now) == v

\* The switch on metric.cwName that turns the selected average into the value.
Transform(cwName, v, now) ==
    IF cwName = "EngineUptime" THEN Float64(now - Int64(v)) ELSE v

\* Variant: the labels are added whatever DisableEnhancedMetrics says.
CustomLabelsAlways(labels, cwName, disabled) ==
    CASE cwName = "CPUUtilization" -> MapSet(MapSet(labels, "cpu", "All"), "mode", "total")
      [] cwName = "FreeStorageSpace" -> MapSet(labels, "mountpoint", "/rdsdbdata")
      [] OTHER -> labels

\* maps.Clone(s.constLabels) and the labels added when enhanced metrics are disabled.
CustomLabels(labels, cwName, disabled) ==
    IF disabled
    THEN CASE cwName = "CPUUtilization" -> MapSet(MapSet(labels, "cpu", "All"), "mode", "total")
           [] cwName = "FreeStorageSpace" -> MapSet(labels, "mountpoint", "/rdsdbdata")
           [] OTHER -> labels
    ELSE labels

\* The sample built from a response that holds datapoints.
DataSample(m, datapoints, now) ==
    LET dp == datapoints[getLatestDatapoint(datapoints)]
    IN MustNewConstMetric(m,
                          CustomLabels(constLabels, metrics[m], instance.DisableEnhancedMetrics),
                          Transform(metrics[m], dp.Average, now),
                          "timeseries")

\* Variant: the error of GetMetricStatistics is reported but the function goes on
\* and publishes a sample.
scrapeIgnoringQueryError(m, resp, now) ==
    IF resp.err
    THEN Result("QueryError", << MustNewConstMetric(m, constLabels, Float64(0), "timeseries") >>)
    ELSE IF Len(resp.Datapoints) = 0 THEN Result("nil", << >>)
    ELSE Result("nil", << DataSample(m, resp.Datapoints, now) >>)

\* Variant: a response without datapoints is reported as an error.
scrapeEmptyIsError(m, resp, now) ==
    IF resp.err THEN Result("QueryError", << >>)
    ELSE IF Len(resp.Datapoints) = 0 THEN Result("NoDatapoints", << >>)
    ELSE Result("nil", << DataSample(m, resp.Datapoints, now) >>)

\* The function from the answer of GetMetricStatistics on.
scrapeMetricFromGetMetricsStatistics(m, resp, now) ==
    IF resp.err THEN Result("QueryError", << >>)
    ELSE IF Len(resp.Datapoints) = 0 THEN Result("nil", << >>)
    ELSE Result("nil", << DataSample(m, resp.Datapoints, now) >>)

(***************************************************************************)
(* Scrape and its goroutines.                                              *)
(***************************************************************************)
Tasks == 1..Len(metrics)

\* Variant: one more than the goroutines started.
ScrapeAddOneMore == Len(metrics) + 1

\* wg.Add(len(s.collector.metrics))
ScrapeAdd == Len(metrics)

\* Variant: Scrape returns without waiting.
WaitSkipped == TRUE

\* wg.Wait() lets Scrape return.
WaitDone == wg = 0

\* Variant: the goroutines share the loop variable and see its last value.
TaskMetricShared(i) == Len(metrics)

\* metric := metric: the goroutine of the i-th loop turn works on the i-th catalog entry.
TaskMetric(i) == i

\* level.Error(...).Log("metric", metric.cwName, "error", err); task is not in the entry.
LogEntry(i, err) == [task |-> i, metric |-> metrics[TaskMetric(i)], error |-> err]

Logged(err, i) == IF err = "nil" THEN log ELSE log (+) SetToBag({LogEntry(i, err)})

\* Variant: an error ends the other goroutines too.
AfterStrategyAbort(i, err, next) ==
    IF err = "nil" THEN [pc EXCEPT ![i] = next]
    ELSE [j \in DOMAIN pc |-> IF j = i THEN next ELSE "done"]

\* Variant: a failed query is issued again.
AfterStrategyRetry(i, err, next) ==
    [pc EXCEPT ![i] = IF err = "QueryError" THEN "query" ELSE next]

\* Variant: the goroutine returns at the first error.
AfterStrategyReturn(i, err, next) ==
    [pc EXCEPT ![i] = IF err = "nil" THEN next ELSE "done"]

\* if err != nil { level.Error(...).Log(...) }: the goroutine goes on to `next`
\* whatever the strategy returned, and no other goroutine is touched.
AfterStrategy(i, err, next) == [pc EXCEPT ![i] = next]

NoPick == << >>

\* Variant: the configuration GetSession returned is used without looking at it.
NoSessionUnchecked == FALSE

\* if awsConfig == nil { return nil }
NoSession == ~sessionOK

\* Variant: the goroutine starts with the time-series strategy.
GoroutineEntryQueryFirst == "query"

\* The goroutine's first statement is the call of scrapeMetricSomewhere.
GoroutineEntry == "somewhere"

\* Variant: customLabels is s.constLabels itself, the added labels land in it.
ConstLabelsAliased(cwName) ==
    CustomLabels(constLabels, cwName, instance.DisableEnhancedMetrics)

\* s.constLabels after a sample was built: customLabels is a clone, the base set is
\* as it was.
ConstLabelsAfterSample(cwName) == constLabels

\* Variant: wg.Done() is called when the query is over, not deferred.
WgAfterQueryEarly(finished) == wg - 1

\* The WaitGroup's counter after the query step: the deferred wg.Done() runs only
\* when the goroutine's function returns.
WgAfterQuery(finished) == IF finished THEN wg - 1 ELSE wg

\* time.Now().Unix() is read in the EngineUptime case only; 0 stands for "not read".
NowsRead(cwName) == IF cwName = "EngineUptime" THEN Nows ELSE {0}

ScrapeInit ==
    /\ instance \in Instances
    /\ sessionInstance \in Sessions
    /\ sessionOK \in BOOLEAN
    /\ metrics \in SeqsUpTo(Keys, MaxMetrics)
    /\ scraper = "unbuilt"
    /\ constLabels = EmptyMap
    /\ mainpc = "idle"
    /\ spawned = 0
    /\ wg = 0
    /\ pc = [i \in Tasks |-> "unstarted"]
    /\ pending = [i \in Tasks |-> << >>]
    /\ outcome = [i \in Tasks |-> "none"]
    /\ picked = [i \in Tasks |-> NoPick]
    /\ sink = << >>
    /\ log = EmptyBag
    /\ queries = [i \in Tasks |-> 0]
    /\ cycle = 0

Init ==
    /\ ScrapeInit
    /\ selDps = << >>
    /\ selOut = << >>
    /\ memoryLookup = MemoryData
    /\ lookupClass = << >>
    /\ lookupResults = << >>

NewScraper ==
    /\ scraper = "unbuilt"
    /\ IF NoSession
       THEN /\ scraper' = "nil"
            /\ UNCHANGED constLabels
       ELSE /\ scraper' = "built"
            /\ constLabels' = NewConstLabels(instance)
    /\ UNCHANGED <<instance, sessionInstance, sessionOK, metrics, mainpc, spawned, wg,
                   pc, pending, outcome, picked, sink, log, queries, cycle, selDps, selOut, memoryLookup, catalogVars>>

\* Scrape() is called: wg.Add, before the loop.
Scrape ==
    /\ scraper = "built"
    /\ mainpc \in {"idle", "returned"}
    /\ cycle < MaxCycles
    /\ mainpc' = "running"
    /\ cycle' = cycle + 1
    /\ wg' = ScrapeAdd
    /\ spawned' = 0
    /\ pc' = [i \in Tasks |-> "unstarted"]
    /\ pending' = [i \in Tasks |-> << >>]
    /\ outcome' = [i \in Tasks |-> "none"]
    /\ picked' = [i \in Tasks |-> NoPick]
    /\ queries' = [i \in Tasks |-> 0]
    /\ sink' = << >>
    /\ log' = EmptyBag
    /\ UNCHANGED <<instance, sessionInstance, sessionOK, metrics, scraper, constLabels,
                   selDps, selOut, memoryLookup, catalogVars>>

\* One turn of the loop: go func() { ... }().
Spawn ==
    /\ mainpc = "running"
    /\ spawned < Len(metrics)
    /\ spawned' = spawned + 1
    /\ pc' = [pc EXCEPT ![spawned + 1] = GoroutineEntry]
    /\ UNCHANGED <<instance, sessionInstance, sessionOK, metrics, scraper, constLabels,
                   mainpc, wg, pending, outcome, picked, sink, log, queries, cycle,
                   selDps, selOut, memoryLookup, catalogVars>>

\* The loop is over and the deferred wg.Wait() lets Scrape return.
Return ==
    /\ mainpc = "running"
    /\ spawned = Len(metrics)
    /\ WaitDone
    /\ mainpc' = "returned"
    /\ UNCHANGED <<instance, sessionInstance, sessionOK, metrics, scraper, constLabels,
                   spawned, wg, pc, pending, outcome, picked, sink, log, queries, cycle,
                   selDps, selOut, memoryLookup, catalogVars>>

\* Goroutine i runs scrapeMetricSomewhere up to its send, or to its return.
TaskSomewhere(i) ==
    /\ pc[i] = "somewhere"
    /\ LET r == scrapeMetricSomewhere(TaskMetric(i))
       IN /\ pending' = [pending EXCEPT ![i] = r.samples]
          /\ pc' = AfterStrategy(i, r.err, IF r.samples = << >> THEN "query" ELSE "send1")
          /\ log' = Logged(r.err, i)
    /\ memoryLookup' = IF metrics[TaskMetric(i)] = "TotalMemory"
                       THEN MemoryAfterLookup(sessionInstance.InstanceClass)
                       ELSE memoryLookup
    /\ UNCHANGED <<instance, sessionInstance, sessionOK, metrics, scraper, constLabels,
                   mainpc, spawned, wg, outcome, picked, sink, queries, cycle,
                   selDps, selOut, catalogVars>>

\* s.ch <- sample of scrapeMetricSomewhere: the sink receives it.
TaskSend1(i) ==
    /\ pc[i] = "send1"
    /\ sink' = Append(sink, pending[i][1])
    /\ pending' = [pending EXCEPT ![i] = << >>]
    /\ pc' = [pc EXCEPT ![i] = "query"]
    /\ UNCHANGED <<instance, sessionInstance, sessionOK, metrics, scraper, constLabels,
                   mainpc, spawned, wg, outcome, picked, log, queries, cycle,
                   selDps, selOut, memoryLookup, catalogVars>>

\* Goroutine i calls GetMetricStatistics and runs scrapeMetricFromGetMetricsStatistics
\* up to its send, or to its return and the deferred wg.Done().
TaskQuery(i) ==
    /\ pc[i] = "query"
    /\ \E resp \in Responses, now \in NowsRead(metrics[TaskMetric(i)]) :
          LET r == scrapeMetricFromGetMetricsStatistics(TaskMetric(i), resp, now)
              finished == r.samples = << >>
          IN /\ queries' = [queries EXCEPT ![i] = @ + 1]
             /\ outcome' = [outcome EXCEPT ![i] =
                               IF resp.err THEN "error"
                               ELSE IF Len(resp.Datapoints) = 0 THEN "empty" ELSE "data"]
             /\ picked' = [picked EXCEPT ![i] =
                               IF resp.err \/ Len(resp.Datapoints) = 0 THEN NoPick
                               ELSE << [Average |-> resp.Datapoints[getLatestDatapoint(resp.Datapoints)].Average,
                                        now |-> now] >>]
             /\ pending' = [pending EXCEPT ![i] = r.samples]
             /\ log' = Logged(r.err, i)
             /\ pc' = AfterStrategy(i, r.err, IF finished THEN "done" ELSE "send2")
             /\ wg' = WgAfterQuery(finished)
             /\ constLabels' = IF finished THEN constLabels
                               ELSE ConstLabelsAfterSample(metrics[TaskMetric(i)])
    /\ UNCHANGED <<instance, sessionInstance, sessionOK, metrics, scraper,
                   mainpc, spawned, sink, cycle, selDps, selOut, memoryLookup, catalogVars>>

\* s.ch <- sample of scrapeMetricFromGetMetricsStatistics, then the deferred wg.Done().
TaskSend2(i) ==
    /\ pc[i] = "send2"
    /\ sink' = Append(sink, pending[i][1])
    /\ pending' = [pending EXCEPT ![i] = << >>]
    /\ pc' = [pc EXCEPT ![i] = "done"]
    /\ wg' = wg - 1
    /\ UNCHANGED <<instance, sessionInstance, sessionOK, metrics, scraper, constLabels,
                   mainpc, spawned, outcome, picked, log, queries, cycle, selDps, selOut,
                   memoryLookup, catalogVars>>

\* Any step of goroutine i.
Task(i) ==
    /\ i \in Tasks
    /\ TaskSomewhere(i) \/ TaskSend1(i) \/ TaskQuery(i) \/ TaskSend2(i)

Next ==
    \/ NewScraper
    \/ Scrape
    \/ Spawn
    \/ Return
    \/ \E i \in Tasks : TaskSomewhere(i)
    \/ \E i \in Tasks : TaskSend1(i)
    \/ \E i \in Tasks : TaskQuery(i)
    \/ \E i \in Tasks : TaskSend2(i)

Spec == Init /\ [][Next]_vars


(***************************************************************************)
(* The same program under the scheduling the runtime gives it: the loop of *)
(* Scrape goes on, a runnable goroutine is run, GetMetricStatistics        *)
(* answers (with data, with nothing or with an error), the consumer of ch  *)
(* receives what is sent, and wg.Wait() returns once the counter is zero.  *)
(***************************************************************************)
LiveSpec ==
    /\ Spec
    /\ WF_vars(Spawn)
    /\ WF_vars(Return)
    /\ \A i \in 1..MaxMetrics : WF_vars(Task(i))

(***************************************************************************)
(* getLatestDatapoint on its own: the input is drawn, the function is      *)
(* applied.  The scraper is left unbuilt.                                  *)
(***************************************************************************)
SelInit ==
    /\ selDps \in SeqsUpTo(Datapoints, MaxSelLen)
    /\ selOut = << >>
    /\ instance = [Region |-> "us-east-1", Instance |-> "db1", Labels |-> EmptyMap,
                   DisableEnhancedMetrics |-> FALSE]
    /\ sessionInstance = [AllocatedStorage |-> 2, InstanceClass |-> "db.t3.micro"]
    /\ sessionOK = TRUE
    /\ metrics = << >>
    /\ scraper = "unbuilt"
    /\ constLabels = EmptyMap
    /\ mainpc = "idle"
    /\ spawned = 0
    /\ wg = 0
    /\ pc = << >>
    /\ pending = << >>
    /\ outcome = << >>
    /\ picked = << >>
    /\ sink = << >>
    /\ log = EmptyBag
    /\ queries = << >>
    /\ cycle = 0
    /\ memoryLookup = MemoryData
    /\ lookupClass = << >>
    /\ lookupResults = << >>

SelectLatest ==
    /\ selOut = << >>
    /\ selOut' = << getLatestDatapoint(selDps) >>
    /\ UNCHANGED <<selDps, scrapeVars, memoryLookup, catalogVars>>

SelSpec == SelInit /\ [][SelectLatest]_vars


(***************************************************************************)
(* The memory catalog shared by several scrapers: init() has filled the    *)
(* map, every scraper has its instance class, and the scrapers' goroutines *)
(* call GetInstanceMaxMemory (the TotalMemory case of                      *)
(* scrapeMetricSomewhere) in any order.                                    *)
(***************************************************************************)
Classes == {"db.t3.micro", "db.t3.small", "db.unknown"}

CatalogInit ==
    /\ memoryLookup = MemoryData
    /\ lookupClass \in [1..MaxScrapers -> Classes]
    /\ lookupResults = [sc \in 1..MaxScrapers |-> << >>]
    /\ selDps = << >>
    /\ selOut = << >>
    /\ instance = [Region |-> "us-east-1", Instance |-> "db1", Labels |-> EmptyMap,
                   DisableEnhancedMetrics |-> FALSE]
    /\ sessionInstance = [AllocatedStorage |-> 2, InstanceClass |-> "db.t3.micro"]
    /\ sessionOK = TRUE
    /\ metrics = << >>
    /\ scraper = "unbuilt"
    /\ constLabels = EmptyMap
    /\ mainpc = "idle"
    /\ spawned = 0
    /\ wg = 0
    /\ pc = << >>
    /\ pending = << >>
    /\ outcome = << >>
    /\ picked = << >>
    /\ sink = << >>
    /\ log = EmptyBag
    /\ queries = << >>
    /\ cycle = 0

\* A goroutine of scraper sc looks its instance class up.
Lookup(sc) ==
    /\ Len(lookupResults[sc]) < MaxLookups
    /\ lookupResults' = [lookupResults EXCEPT
                            ![sc] = Append(@, GetInstanceMaxMemory(lookupClass[sc]))]
    /\ memoryLookup' = MemoryAfterLookup(lookupClass[sc])
    /\ UNCHANGED <<lookupClass, selDps, selOut, scrapeVars>>

CatalogNext == \E sc \in 1..MaxScrapers : Lookup(sc)

CatalogSpec == CatalogInit /\ [][CatalogNext]_vars

(***************************************************************************)
(* Vocabulary of the statements below.                                     *)
(***************************************************************************)
\* Positions in the sink of the samples of catalog entry m built by strategy via.
Received(m, via) == {k \in 1..Len(sink) : sink[k].metric = m /\ sink[k].via = via}

\* Every sample that exists: received by the sink, or being sent.
Samples == {sink[k] : k \in 1..Len(sink)}
           \cup {pending[i][1] : i \in {j \in Tasks : pending[j] # << >>}}

\* The entries goroutine i logged.
LoggedBy(i) == {e \in BagToSet(log) : e.task = i}

\* The computed-value strategy has a value for this key on this instance.
HasComputedValue(cwName) ==
    \/ cwName = "TotalStorageSpace"
    \/ cwName = "TotalMemory" /\ sessionInstance.InstanceClass \in DOMAIN memoryLookup

AllQueriesFailed == \A i \in Tasks : outcome[i] \in {"none", "error"}

(***************************************************************************)
(* C1: Scrape() never returns while a task of that call is still running:  *)
(* when Scrape() has returned, every goroutine it started has finished     *)
(* both strategies (it is done, has made its query and sends nothing).     *)
(***************************************************************************)
C1_ReturnsAfterAllTasks ==
    mainpc = "returned" =>
        \A i \in Tasks : pc[i] = "done" /\ outcome[i] # "none" /\ pending[i] = << >>

C1_Witness ==
    /\ mainpc = "returned"
    /\ Len(metrics) >= 2
    /\ \E i \in Tasks : outcome[i] = "data"
    /\ \E i \in Tasks : outcome[i] = "error"

(***************************************************************************)
(* C2: every call of Scrape() eventually returns, whatever the tasks'      *)
(* outcomes are (checked under LiveSpec).                                  *)
(***************************************************************************)
C2_ScrapeReturns == (mainpc = "running") ~> (mainpc = "returned")

\* Scrape has returned although every task failed in both strategies.
C2_Witness ==
    /\ mainpc = "returned"
    /\ Len(metrics) >= 2
    /\ \A i \in Tasks : outcome[i] = "error" /\ metrics[i] = "TotalMemory"
    /\ sessionInstance.InstanceClass \notin DOMAIN memoryLookup
    /\ sink = << >>

(***************************************************************************)
(* C3, as stated: with every query of the cycle failing, the call emits no *)
(* sample, whatever the catalog.                                           *)
(***************************************************************************)
C3_Original ==
    (mainpc = "returned" /\ \A i \in Tasks : outcome[i] = "error") => sink = << >>

(***************************************************************************)
(* C3, amended: while every query of the cycle has failed, no time-series  *)
(* sample exists; the samples are those of the computed-value strategy for *)
(* TotalStorageSpace and TotalMemory, and when Scrape() has returned there *)
(* is exactly one for each catalog entry that strategy has a value for     *)
(* (so none when the catalog has no such entry).                           *)
(***************************************************************************)
C3_FailingClientOnlyComputed ==
    AllQueriesFailed =>
        /\ \A s \in Samples :
              s.via = "computed" /\ metrics[s.metric] \in {"TotalStorageSpace", "TotalMemory"}
        /\ mainpc = "returned" =>
              Len(sink) = Cardinality({i \in Tasks : HasComputedValue(metrics[i])})

C3_Witness ==
    /\ mainpc = "returned"
    /\ Len(metrics) >= 2
    /\ \A i \in Tasks : outcome[i] = "error"
    /\ Len(sink) = 1

(***************************************************************************)
(* C4: a step of one metric's task, failing or not, changes nothing of     *)
(* another metric's task (its position, the sample it is sending, the      *)
(* samples received for it, the answer to its query, its log entries), and *)
(* what a finished task has emitted is decided by its own key and its own  *)
(* answer alone: one computed-value sample iff that strategy has a value   *)
(* for its key, one time-series sample iff its answer held datapoints.     *)
(***************************************************************************)
C4_OwnSamples ==
    \A b \in Tasks : pc[b] = "done" =>
        /\ Cardinality(Received(b, "computed")) = IF HasComputedValue(metrics[b]) THEN 1 ELSE 0
        /\ Cardinality(Received(b, "timeseries")) = IF outcome[b] = "data" THEN 1 ELSE 0

C4_StepOf(a) == cycle' = cycle /\ pc'[a] # pc[a]

C4_Untouched(b) ==
    /\ pc'[b] = pc[b]
    /\ pending'[b] = pending[b]
    /\ outcome'[b] = outcome[b]
    /\ Received(b, "computed")' = Received(b, "computed")
    /\ Received(b, "timeseries")' = Received(b, "timeseries")
    /\ LoggedBy(b)' = LoggedBy(b)

C4_FailureIsolation ==
    [][ /\ \A a \in Tasks : C4_StepOf(a) => \A b \in Tasks \ {a} : C4_Untouched(b)
        /\ C4_OwnSamples' ]_vars

\* Task 1 has failed in both strategies and task 2 has emitted both its samples.
C4_Witness ==
    /\ Len(metrics) >= 2
    /\ metrics[1] = "TotalMemory" /\ metrics[2] = "TotalStorageSpace"
    /\ Cardinality(LoggedBy(1)) = 2
    /\ pc[2] = "done"
    /\ Received(2, "computed") # {} /\ Received(2, "timeseries") # {}

(***************************************************************************)
(* C5: in one cycle the sink receives at most one sample per catalog entry *)
(* and strategy, so at most two per entry.                                 *)
(***************************************************************************)
C5_AtMostOnePerStrategy ==
    \A m \in Tasks :
        /\ Cardinality(Received(m, "computed")) <= 1
        /\ Cardinality(Received(m, "timeseries")) <= 1

\* Two entries of the same key have each got both their samples.
C5_Witness ==
    /\ Len(metrics) >= 2
    /\ metrics[1] = metrics[2]
    /\ \A m \in Tasks : Received(m, "computed") # {} /\ Received(m, "timeseries") # {}

(***************************************************************************)
(* C6, as stated: a task whose query answered without datapoints has no    *)
(* sample in the sink and no log entry.                                    *)
(***************************************************************************)
C6_Original ==
    \A i \in Tasks : outcome[i] = "empty" =>
        /\ Received(i, "computed") = {} /\ Received(i, "timeseries") = {}
        /\ LoggedBy(i) = {}

(***************************************************************************)
(* C6, amended: a task whose query answered without datapoints is done     *)
(* with no time-series sample sent or received and no failure of the query *)
(* logged; the only entry it can have logged is the failed memory lookup   *)
(* of the computed-value strategy for TotalMemory.                         *)
(***************************************************************************)
C6_EmptyAnswerIsSilent ==
    \A i \in Tasks : outcome[i] = "empty" =>
        /\ pc[i] = "done"
        /\ pending[i] = << >>
        /\ Received(i, "timeseries") = {}
        /\ \A e \in LoggedBy(i) :
              e.error = "UnknownInstanceType" /\ metrics[i] = "TotalMemory"

C6_Witness ==
    /\ mainpc = "returned"
    /\ \E i \in Tasks : outcome[i] = "empty" /\ Received(i, "computed") # {}
    /\ \E i \in Tasks : outcome[i] = "empty" /\ LoggedBy(i) # {}

(***************************************************************************)
(* C7: getLatestDatapoint returns nil for an empty slice; for a non-empty  *)
(* one it points at an entry whose timestamp no entry exceeds, and at the  *)
(* first such entry (checked under SelSpec).                               *)
(***************************************************************************)
C7_LatestIsFirstMaximal ==
    selOut # << >> =>
        LET r == selOut[1]
        IN IF selDps = << >> THEN r = 0
           ELSE /\ r \in 1..Len(selDps)
                /\ \A j \in 1..Len(selDps) : selDps[j].Timestamp <= selDps[r].Timestamp
                /\ \A j \in 1..(r - 1) : selDps[j].Timestamp < selDps[r].Timestamp

\* A tie for the greatest timestamp between entries of different averages.
C7_Witness ==
    /\ selOut # << >>
    /\ selOut[1] # 0
    /\ \E j \in 1..Len(selDps) :
          /\ j > selOut[1]
          /\ selDps[j].Timestamp = selDps[selOut[1]].Timestamp
          /\ selDps[j].Average # selDps[selOut[1]].Average
    /\ \E j \in 1..Len(selDps) : selDps[j].Timestamp < selDps[selOut[1]].Timestamp

(***************************************************************************)
(* C8: the base label set of a built scraper obeys the override law: a key *)
(* overridden to "" is absent, a key overridden to a value carries it, a   *)
(* key without override keeps its base value (region, instance) or is      *)
(* absent; and every sample carries region and instance unless that key is *)
(* overridden to "".                                                       *)
(***************************************************************************)
C8_LabelOverrideLaw ==
    scraper = "built" =>
        /\ \A k \in DOMAIN instance.Labels \cup DOMAIN constLabels \cup {"region", "instance"} :
              IF k \in DOMAIN instance.Labels
              THEN IF instance.Labels[k] = ""
                   THEN k \notin DOMAIN constLabels
                   ELSE k \in DOMAIN constLabels /\ constLabels[k] = instance.Labels[k]
              ELSE /\ k \in {"region", "instance"}
                   /\ k \in DOMAIN constLabels
                   /\ constLabels[k] = (IF k = "region" THEN instance.Region ELSE instance.Instance)
        /\ \A s \in Samples : \A k \in {"region", "instance"} :
              \/ k \in DOMAIN s.labels
              \/ k \in DOMAIN instance.Labels /\ instance.Labels[k] = ""

\* A received sample without instance, with the added key env and the base region.
C8_Witness ==
    \E k \in 1..Len(sink) :
        /\ "instance" \notin DOMAIN sink[k].labels
        /\ "env" \in DOMAIN sink[k].labels
        /\ sink[k].labels["region"] = instance.Region

(***************************************************************************)
(* C9: a time-series sample carries cpu="All" and mode="total" when the    *)
(* instance has enhanced metrics disabled and its key is CPUUtilization,   *)
(* and mountpoint="/rdsdbdata" when they are disabled and its key is       *)
(* FreeStorageSpace; in every other case (another key, the flag false, a   *)
(* computed-value sample) a sample has these three keys exactly as the     *)
(* base label set has them.                                                *)
(***************************************************************************)
C9_ShimValue(cwName, k) ==
    CASE cwName = "CPUUtilization" /\ k = "cpu" -> "All"
      [] cwName = "CPUUtilization" /\ k = "mode" -> "total"
      [] cwName = "FreeStorageSpace" /\ k = "mountpoint" -> "/rdsdbdata"
      [] OTHER -> ""

C9_EnhancedMonitoringShim ==
    \A s \in Samples : \A k \in {"cpu", "mode", "mountpoint"} :
        IF /\ s.via = "timeseries"
           /\ instance.DisableEnhancedMetrics
           /\ C9_ShimValue(metrics[s.metric], k) # ""
        THEN k \in DOMAIN s.labels /\ s.labels[k] = C9_ShimValue(metrics[s.metric], k)
        ELSE /\ k \in DOMAIN s.labels <=> k \in DOMAIN constLabels
             /\ k \in DOMAIN constLabels => s.labels[k] = constLabels[k]

\* With the flag set: a CPUUtilization and a FreeStorageSpace time-series sample.
C9_Witness ==
    /\ instance.DisableEnhancedMetrics
    /\ Len(sink) = 2
    /\ metrics[sink[1].metric] = "CPUUtilization" /\ "mode" \in DOMAIN sink[1].labels
    /\ metrics[sink[2].metric] = "FreeStorageSpace" /\ "mountpoint" \in DOMAIN sink[2].labels

C10_Expected(cwName, v, now) ==
    IF cwName # "EngineUptime" THEN v
    ELSE IF v.h = 0 THEN FSub(Float64(now), v)
    ELSE IF v.w >= 0 THEN Float64(now - v.w)
    ELSE Float64(now - (v.w + 1))

ComputedSamplesOf(i) == {s \in Samples : s.metric = i /\ s.via = "computed"}

LookupFailure(i) == [task |-> i, metric |-> metrics[i], error |-> "UnknownInstanceType"]

C11_MemoryLookup ==
    \A i \in Tasks :
        (metrics[i] = "TotalMemory" /\ pc[i] \notin {"unstarted", "somewhere"}) =>
            LET class == sessionInstance.InstanceClass
            IN IF class \in DOMAIN MemoryData
               THEN /\ \A s \in ComputedSamplesOf(i) : s.value = MemoryData[class]
                    /\ pc[i] = "send1" \/ Received(i, "computed") # {}
                    /\ CopiesIn(LookupFailure(i), log) = 0
               ELSE /\ ComputedSamplesOf(i) = {}
                    /\ CopiesIn(LookupFailure(i), log) = 1

\* Unknown class: the lookup failure is logged and only the time-series sample exists.
C11_Witness ==
    /\ sessionInstance.InstanceClass \notin DOMAIN MemoryData
    /\ \E i \in Tasks :
          /\ metrics[i] = "TotalMemory"
          /\ pc[i] = "done"
          /\ CopiesIn(LookupFailure(i), log) = 1
          /\ Received(i, "timeseries") # {}

(***************************************************************************)
(* C12: with several scrapers looking classes up concurrently, the map is  *)
(* never written after init() (it stays what init() loaded), and all       *)
(* lookups of one class, by any scraper and at any time, return the same   *)
(* result (checked under CatalogSpec).                                     *)
(***************************************************************************)
C12_CatalogReadOnly ==
    /\ memoryLookup = MemoryData
    /\ \A sc, tc \in DOMAIN lookupResults :
          lookupClass[sc] = lookupClass[tc] =>
              \A k \in 1..Len(lookupResults[sc]), l \in 1..Len(lookupResults[tc]) :
                  lookupResults[sc][k] = lookupResults[tc][l]

\* Two scrapers of the same unknown class and two of their lookups each.
C12_Witness ==
    /\ lookupClass[1] = "db.unknown" /\ lookupClass[2] = "db.unknown"
    /\ Len(lookupResults[1]) >= 2 /\ Len(lookupResults[2]) >= 2
    /\ lookupResults[1][1].err = "UnknownInstanceType"

(***************************************************************************)
(* C13: when GetSession yields no configuration, NewScraper yields no      *)
(* scraper: no Scrape() runs, no query is issued and no sample exists.     *)
(***************************************************************************)
C13_NoSessionNoScraper ==
    ~sessionOK =>
        /\ scraper \in {"unbuilt", "nil"}
        /\ cycle = 0 /\ mainpc = "idle"
        /\ \A i \in Tasks : queries[i] = 0
        /\ Samples = {}

C13_Witness == ~sessionOK /\ scraper = "nil" /\ Len(metrics) >= 1

(***************************************************************************)
(* C14: in one cycle a task issues its query at most once, and exactly     *)
(* once by the time it has gone past the query; a task whose query failed  *)
(* is done without a time-series sample, with exactly one log entry of the *)
(* failed query under its catalog key.                                     *)
(***************************************************************************)
QueryFailure(i) == [task |-> i, metric |-> metrics[i], error |-> "QueryError"]

C14_OneQueryNoRetry ==
    \A i \in Tasks :
        /\ queries[i] = IF pc[i] \in {"send2", "done"} THEN 1 ELSE 0
        /\ outcome[i] = "error" =>
              /\ pc[i] = "done"
              /\ {s \in Samples : s.metric = i /\ s.via = "timeseries"} = {}
              /\ CopiesIn(QueryFailure(i), log) = 1
        /\ outcome[i] # "error" => CopiesIn(QueryFailure(i), log) = 0

C14_Witness ==
    /\ mainpc = "returned"
    /\ Len(metrics) >= 2
    /\ outcome[1] = "error" /\ outcome[2] = "data"
    /\ \A i \in Tasks : queries[i] = 1

(***************************************************************************)
(* C15: when the memory lookup of a TotalMemory task fails, the computed-  *)
(* value strategy sends nothing and the failure is logged once under the   *)
(* key; the task still goes on to its query, and when it is done it has    *)
(* made the query and, if that held datapoints, its time-series sample has *)
(* been received.                                                          *)
(***************************************************************************)
C15_LookupFailureSkipsOneSample ==
    \A i \in Tasks :
        (/\ metrics[i] = "TotalMemory"
         /\ sessionInstance.InstanceClass \notin DOMAIN MemoryData
         /\ pc[i] \notin {"unstarted", "somewhere"}) =>
            /\ pc[i] # "send1"
            /\ Received(i, "computed") = {}
            /\ CopiesIn(LookupFailure(i), log) = 1
            /\ LookupFailure(i).metric = "TotalMemory"
            /\ pc[i] = "done" =>
                  /\ queries[i] = 1
                  /\ Cardinality(Received(i, "timeseries")) = IF outcome[i] = "data" THEN 1 ELSE 0

C15_Witness ==
    /\ mainpc = "returned"
    /\ sessionInstance.InstanceClass \notin DOMAIN MemoryData
    /\ Len(sink) = 1
    /\ metrics[sink[1].metric] = "TotalMemory"
    /\ sink[1].via = "timeseries"
    /\ Cardinality(LoggedBy(sink[1].metric)) = 1

(***************************************************************************)
(* C16: computed-value samples exist for TotalStorageSpace and TotalMemory *)
(* entries only, a TotalStorageSpace sample has the value                  *)
(* AllocatedStorage * 1e9, and for any other key the strategy is a no-op:  *)
(* the task goes straight to its query having sent nothing, logged nothing *)
(* and issued no query.                                                    *)
(***************************************************************************)
C16_ComputedKeys ==
    /\ \A s \in Samples : s.via = "computed" =>
          /\ metrics[s.metric] \in {"TotalStorageSpace", "TotalMemory"}
          /\ metrics[s.metric] = "TotalStorageSpace" =>
                s.value = F(sessionInstance.AllocatedStorage * 1000000000, 0)
    /\ \A i \in Tasks : metrics[i] \notin {"TotalStorageSpace", "TotalMemory"} =>
          /\ pc[i] # "send1"
          /\ pc[i] = "query" => (queries[i] = 0 /\ LoggedBy(i) = {})
          /\ \A e \in LoggedBy(i) : e.error = "QueryError"

C16_Witness ==
    /\ mainpc = "returned"
    /\ Len(metrics) >= 2
    /\ metrics[1] = "FreeableMemory" /\ metrics[2] = "TotalStorageSpace"
    /\ sessionInstance.AllocatedStorage = 2
    /\ Received(1, "computed") = {} /\ Received(2, "computed") # {}
    /\ outcome[1] = "data"

(***************************************************************************)
(* C17, as stated: the value of a total-memory sample is the stored value  *)
(* of the instance class multiplied by GBtoByte.                           *)
(***************************************************************************)
C17_Original ==
    \A s \in Samples :
        (s.via = "computed" /\ metrics[s.metric] = "TotalMemory") =>
            s.value = Float64(Int64(MemoryData[sessionInstance.InstanceClass]) * GBtoByte)

(***************************************************************************)
(* C17, amended: the value of a total-memory sample is the stored value of *)
(* the instance class as it is in the catalog, not multiplied by GBtoByte  *)
(* (only the TotalStorageSpace value is).                                  *)
(***************************************************************************)
C17_MemoryValueUnscaled ==
    \A s \in Samples :
        (s.via = "computed" /\ metrics[s.metric] = "TotalMemory") =>
            /\ sessionInstance.InstanceClass \in DOMAIN MemoryData
            /\ s.value = MemoryData[sessionInstance.InstanceClass]
            /\ s.value # Float64(Int64(MemoryData[sessionInstance.InstanceClass]) * GBtoByte)

C17_Witness ==
    \E k \in 1..Len(sink) :
        /\ sink[k].via = "computed"
        /\ metrics[sink[k].metric] = "TotalMemory"
        /\ sink[k].value = Float64(1)

(***************************************************************************)
(* C18: in a task the computed-value strategy comes first: once the task   *)
(* has issued its query, the computed-value sample of its key (if the      *)
(* strategy has a value for it) has been received, and it stands in the    *)
(* sink before the task's time-series sample.  The witness shows that      *)
(* samples of different tasks arrive in either order.                      *)
(***************************************************************************)
C18_ComputedFirst ==
    \A i \in Tasks :
        /\ (queries[i] >= 1 /\ HasComputedValue(metrics[i])) =>
              Cardinality(Received(i, "computed")) = 1
        /\ \A k \in Received(i, "computed"), l \in Received(i, "timeseries") : k < l

\* Task 2's computed sample before task 1's, task 1's time-series sample before task 2's.
C18_Witness ==
    /\ Len(sink) = 4
    /\ sink[1].metric = 2 /\ sink[1].via = "computed"
    /\ sink[2].metric = 1 /\ sink[2].via = "computed"
    /\ sink[3].metric = 1 /\ sink[3].via = "timeseries"
    /\ sink[4].metric = 2 /\ sink[4].via = "timeseries"

(***************************************************************************)
(* C19: the base label set of a built scraper stays the one NewScraper     *)
(* built, over all cycles; and a label of a sample that is not one the     *)
(* shim adds for that very sample (time-series, flag set, its own key) is  *)
(* a label of that base set, with its value.                               *)
(***************************************************************************)
C19_OwnShim(s, k) ==
    /\ s.via = "timeseries"
    /\ instance.DisableEnhancedMetrics
    /\ \/ metrics[s.metric] = "CPUUtilization" /\ k \in {"cpu", "mode"}
       \/ metrics[s.metric] = "FreeStorageSpace" /\ k = "mountpoint"

C19_BaseLabelsUntouched ==
    scraper = "built" =>
        /\ constLabels = NewConstLabels(instance)
        /\ \A s \in Samples :
              \A k \in DOMAIN s.labels \cup DOMAIN NewConstLabels(instance) :
                  \/ C19_OwnShim(s, k)
                  \/ /\ k \in DOMAIN s.labels
                     /\ k \in DOMAIN NewConstLabels(instance)
                     /\ s.labels[k] = NewConstLabels(instance)[k]

\* Second cycle: a CPUUtilization sample with the added labels, then a computed and a
\* time-series sample of another entry without them.
C19_Witness ==
    /\ cycle = 2
    /\ mainpc = "returned"
    /\ instance.DisableEnhancedMetrics
    /\ "cpu" \notin DOMAIN constLabels
    /\ Len(sink) = 3
    /\ metrics[sink[1].metric] = "CPUUtilization" /\ "cpu" \in DOMAIN sink[1].labels
    /\ sink[2].via = "computed" /\ "cpu" \notin DOMAIN sink[2].labels
    /\ sink[3].via = "timeseries" /\ "cpu" \notin DOMAIN sink[3].labels

(***************************************************************************)
(* C20: when Scrape() has returned, no task is still sending and the sink  *)
(* holds every sample of the cycle (for each entry its computed-value      *)
(* sample if the strategy has a value, its time-series sample if its       *)
(* answer held datapoints); and from the return to the next call of        *)
(* Scrape() nothing is written to the sink.                                *)
(***************************************************************************)
C20_AllReceived ==
    mainpc = "returned" =>
        /\ \A i \in Tasks : pending[i] = << >>
        /\ Len(sink) = Cardinality({i \in Tasks : HasComputedValue(metrics[i])})
                       + Cardinality({i \in Tasks : outcome[i] = "data"})

C20_NoLostOrLateSample ==
    [][ /\ C20_AllReceived'
        /\ (mainpc = "returned" /\ mainpc' = "returned") => sink' = sink ]_vars

C20_Witness ==
    /\ mainpc = "returned"
    /\ Len(metrics) >= 2
    /\ Len(sink) = 4

=============================================================================
